---------------------------- MODULE Spec2Model ----------------------------
(***************************************************************************)
(* Idle monitor and notification pipeline of the time-tracker tray app     *)
(* (src-tauri/src/lib.rs, commands.rs, sound_manager.rs,                   *)
(* notification_manager.rs).                                               *)
(*                                                                         *)
(* Two processes share one event sink:                                     *)
(*   - the idle monitor task (start_idle_monitor), one loop iteration per  *)
(*     interval tick;                                                      *)
(*   - the show_notification command, run step by step in program order.   *)
(***************************************************************************)
EXTENDS Integers, Sequences, FiniteSets, TLC

(***************************************************************************)
(* Program constants (constants.rs).                                       *)
(***************************************************************************)
IDLE_THRESHOLD_SECONDS == 3

IDLE_MONITOR_INTERVAL_SECONDS == 10

(***************************************************************************)
(* Bounds of the model.                                                    *)
(***************************************************************************)
\* Number of loop iterations of the idle monitor that are explored.
MaxTicks == 6

\* Idle durations (seconds) the Idle Source may report: both sides of the
\* threshold and the threshold itself.
IdleSampleValues == 0 .. 5

\* UserIdle::get_time() returned Err(e).
SampleErr == -1

VARIABLES
    last_idle_state,   \* IdleMonitorState.last_idle_state
    session_start,     \* IdleMonitorState.session_start (seconds on the clock)
    now,               \* the monotonic clock, in seconds since process start
    ticks,             \* completed interval.tick().await calls
    monitor_running,   \* the monitor task is inside its loop
    samples,           \* results of UserIdle::get_time(), one per tick
    sink,              \* events handed to app.emit, in emission order
    n_pc,              \* position inside show_notification ("idle": no call)
    n_calls,           \* show_notification calls started
    n_req,             \* arguments of the current (or last) call
    n_emit,            \* result of the call's app.emit
    n_ret,             \* value returned by the last finished call
    sm,                \* the call's SoundManager, until it is dropped
    fs,                \* sound files that Path::exists() reported present
    resolved,          \* result of get_sound_file_path in this call
    playback,          \* playback operations invoked in this call
    n_direct,          \* result of the call's direct native notification
    streams,           \* audio output streams acquired so far
    sound_init,        \* result of the call's sound_manager.initialize()
    idle_status,       \* result of the last get_idle_status command
    user_idle,         \* result of the last is_user_idle command
    m_pending,         \* status event of the current tick, built, not emitted
    audio,             \* what became of the playback the call started
    channels_created,  \* NotificationManager.channels_created, per manager
    ch_calls,          \* initialize_channels calls made
    ch_last            \* manager, result and failed emits of the last call

monitor_vars == <<last_idle_state, session_start, now, ticks, monitor_running,
                  samples, m_pending>>

notify_vars == <<n_pc, n_calls, n_req, n_emit, n_ret, sm, fs, resolved,
                 playback, n_direct, streams, sound_init, audio>>

query_vars == <<idle_status, user_idle>>

channel_vars == <<channels_created, ch_calls, ch_last>>

vars == <<monitor_vars, sink, notify_vars, query_vars, channel_vars>>

(***************************************************************************)
(* Idle monitor: lib.rs, start_idle_monitor.                               *)
(***************************************************************************)

IsIdleStrict(idle_seconds) == idle_seconds > IDLE_THRESHOLD_SECONDS

\* lib.rs:85  let is_idle = idle_seconds >= IDLE_THRESHOLD_SECONDS;
IsIdle(idle_seconds) == idle_seconds >= IDLE_THRESHOLD_SECONDS

StateChangedLevel(is_idle, last) == is_idle

\* lib.rs:88  if is_idle != idle_state.last_idle_state
StateChanged(is_idle, last) == is_idle # last

\* lib.rs:89
ActivityState(is_idle) == IF is_idle THEN "became_idle" ELSE "became_active"

\* session_start.elapsed().as_secs()
Elapsed(start, t) == t - start

\* lib.rs:91-99  payload of "idle-status-changed"
ChangedEvent(is_idle, idle_seconds, start, t) ==
    [name |-> "idle-status-changed",
     is_idle |-> is_idle,
     idle_time_seconds |-> idle_seconds,
     activity_state |-> ActivityState(is_idle),
     timestamp |-> t,
     session_duration_seconds |-> Elapsed(start, t)]

\* lib.rs:111-118  payload of "idle-status-update"
StatusEvent(is_idle, idle_seconds, start, t) ==
    [name |-> "idle-status-update",
     is_idle |-> is_idle,
     idle_time_seconds |-> idle_seconds,
     timestamp |-> t,
     session_duration_seconds |-> Elapsed(start, t)]

SessionStartKept(is_idle, changed, start, t) == start

SessionStartAfterAnyChange(is_idle, changed, start, t) ==
    IF changed THEN t ELSE start

\* lib.rs:105-107  session_start is reset only inside the changed branch and
\* only when the new state is active.
SessionStartAfter(is_idle, changed, start, t) ==
    IF changed /\ ~is_idle THEN t ELSE start

LastIdleAfterSticky(is_idle, changed, last) ==
    IF changed /\ is_idle THEN is_idle ELSE last

\* lib.rs:102  idle_state.last_idle_state = is_idle (inside the changed branch)
LastIdleAfter(is_idle, changed, last) ==
    IF changed THEN is_idle ELSE last

StatusEventsQuiet(is_idle, idle_seconds, changed, start, t) ==
    IF changed THEN <<>> ELSE <<StatusEvent(is_idle, idle_seconds, start, t)>>

StatusEventsUnlessNotifying(is_idle, idle_seconds, changed, start, t) ==
    IF n_pc # "idle" THEN <<>>
    ELSE <<StatusEvent(is_idle, idle_seconds, start, t)>>

\* lib.rs:110-118  the status update is emitted on every Ok sample, after the
\* changed branch.
StatusEvents(is_idle, idle_seconds, changed, start, t) ==
    <<StatusEvent(is_idle, idle_seconds, start, t)>>

ChangedEventsAfterReset(is_idle, idle_seconds, changed, start, t) ==
    IF changed
    THEN <<ChangedEvent(is_idle, idle_seconds, IF is_idle THEN start ELSE t, t)>>
    ELSE <<>>

\* lib.rs:87-108  the events of the changed branch.
ChangedEvents(is_idle, idle_seconds, changed, start, t) ==
    IF changed THEN <<ChangedEvent(is_idle, idle_seconds, start, t)>> ELSE <<>>

\* lib.rs:70,76  the first tick of a tokio interval completes immediately,
\* every later one a period after the previous.
TickTime(n, t) == IF n = 0 THEN t ELSE t + IDLE_MONITOR_INTERVAL_SECONDS

\* lib.rs:76  interval.tick().await returns inside the running loop.
TickFires == monitor_running /\ ticks < MaxTicks

\* lib.rs:83-119  one loop iteration whose sample is Ok(idle_time).
MonitorTickOk ==
    /\ TickFires
    /\ \E idle_seconds \in IdleSampleValues :
         LET t == TickTime(ticks, now)
             is_idle == IsIdle(idle_seconds)
             changed == StateChanged(is_idle, last_idle_state)
             start1 == SessionStartAfter(is_idle, changed, session_start, t)
         IN /\ now' = t
            /\ ticks' = ticks + 1
            /\ samples' = Append(samples, idle_seconds)
            /\ last_idle_state' = LastIdleAfter(is_idle, changed, last_idle_state)
            /\ session_start' = start1
            /\ sink' = sink
                 \o ChangedEvents(is_idle, idle_seconds, changed, session_start, t)
                 \o StatusEvents(is_idle, idle_seconds, changed, start1, t)
            /\ UNCHANGED <<monitor_running, notify_vars, query_vars,
                           channel_vars, m_pending>>

MonitorTickErrExits ==
    /\ TickFires
    /\ now' = TickTime(ticks, now)
    /\ ticks' = ticks + 1
    /\ samples' = Append(samples, SampleErr)
    /\ monitor_running' = FALSE
    /\ UNCHANGED <<last_idle_state, session_start, sink, notify_vars,
                   query_vars, channel_vars, m_pending>>

MonitorTickErrResets ==
    /\ TickFires
    /\ now' = TickTime(ticks, now)
    /\ ticks' = ticks + 1
    /\ samples' = Append(samples, SampleErr)
    /\ last_idle_state' = FALSE
    /\ session_start' = TickTime(ticks, now)
    /\ UNCHANGED <<monitor_running, sink, notify_vars, query_vars,
                   channel_vars, m_pending>>

\* lib.rs:120-122  one loop iteration whose sample is Err(e): the error is
\* printed and the loop goes on.
MonitorTickErr ==
    /\ TickFires
    /\ now' = TickTime(ticks, now)
    /\ ticks' = ticks + 1
    /\ samples' = Append(samples, SampleErr)
    /\ UNCHANGED <<last_idle_state, session_start, monitor_running, sink,
                   notify_vars, query_vars, channel_vars, m_pending>>

MonitorTick == MonitorTickOk \/ MonitorTickErr

EmitReversed(q, events) == events \o q

\* lib.rs:99,118, commands.rs:136  app.emit hands the event to the sink when
\* it is called: the sink holds the events in the order of the calls.
Emit(q, events) == q \o events

\* lib.rs:76-116  the loop iteration of an Ok sample up to the point where
\* the status payload is built: the changed branch has run (its event is
\* emitted, the state updated), the status event is not yet emitted.
MonitorTickBegin ==
    /\ TickFires
    /\ m_pending = <<>>
    /\ \E idle_seconds \in IdleSampleValues :
         LET t == TickTime(ticks, now)
             is_idle == IsIdle(idle_seconds)
             changed == StateChanged(is_idle, last_idle_state)
             start1 == SessionStartAfter(is_idle, changed, session_start, t)
         IN /\ now' = t
            /\ ticks' = ticks + 1
            /\ samples' = Append(samples, idle_seconds)
            /\ last_idle_state' = LastIdleAfter(is_idle, changed, last_idle_state)
            /\ session_start' = start1
            /\ sink' = Emit(sink, ChangedEvents(is_idle, idle_seconds, changed,
                                                session_start, t))
            /\ m_pending' = StatusEvents(is_idle, idle_seconds, changed,
                                         start1, t)
            /\ UNCHANGED <<monitor_running, notify_vars, query_vars,
                           channel_vars>>

\* lib.rs:118  the status event is emitted; the iteration ends.
MonitorTickStatus ==
    /\ m_pending # <<>>
    /\ sink' = Emit(sink, m_pending)
    /\ m_pending' = <<>>
    /\ UNCHANGED <<last_idle_state, session_start, now, ticks,
                   monitor_running, samples, notify_vars, query_vars,
                   channel_vars>>

(***************************************************************************)
(* Strings whose letters matter are sequences of characters, so that       *)
(* str::to_uppercase is modelled by what it does.                          *)
(***************************************************************************)
S_ERROR == <<"E", "R", "R", "O", "R">>

S_CRITICAL == <<"C", "R", "I", "T", "I", "C", "A", "L">>

S_WARNING == <<"W", "A", "R", "N", "I", "N", "G">>

S_SUCCESS == <<"S", "U", "C", "C", "E", "S", "S">>

S_INFO == <<"I", "N", "F", "O">>

S_OTHER == <<"O", "T", "H", "E", "R">>

S_error == <<"e", "r", "r", "o", "r">>

S_Warning == <<"W", "a", "r", "n", "i", "n", "g">>

S_info == <<"i", "n", "f", "o">>

S_garbage == <<"u", "n", "k", "-", "x">>

\* notification_type arguments that are explored.
TypeStrings ==
    {S_ERROR, S_CRITICAL, S_WARNING, S_SUCCESS, S_INFO,
     S_error, S_Warning, S_garbage}

Titles == {"t", "Urgent"}

Bodies == {"b", "c"}

LowerCase ==
    <<"a", "b", "c", "d", "e", "f", "g", "h", "i", "j", "k", "l", "m",
      "n", "o", "p", "q", "r", "s", "t", "u", "v", "w", "x", "y", "z">>

UpperCase ==
    <<"A", "B", "C", "D", "E", "F", "G", "H", "I", "J", "K", "L", "M",
      "N", "O", "P", "Q", "R", "S", "T", "U", "V", "W", "X", "Y", "Z">>

UpperChar(c) ==
    IF \E k \in 1 .. Len(LowerCase) : LowerCase[k] = c
    THEN UpperCase[CHOOSE k \in 1 .. Len(LowerCase) : LowerCase[k] = c]
    ELSE c

\* str::to_uppercase
ToUppercase(str) == [k \in 1 .. Len(str) |-> UpperChar(str[k])]

(***************************************************************************)
(* Notification router: commands.rs show_notification,                     *)
(* notification_manager.rs get_channel_id.                                 *)
(***************************************************************************)

GetChannelIdCritical(notification_type) ==
    LET u == ToUppercase(notification_type)
    IN CASE u = S_ERROR -> "time_tracker_error"
         [] u = S_CRITICAL -> "time_tracker_critical"
         [] u = S_WARNING -> "time_tracker_warning"
         [] u = S_SUCCESS -> "time_tracker_success"
         [] u = S_INFO -> "time_tracker_info"
         [] OTHER -> "time_tracker_info"

\* notification_manager.rs:152-160  the match is on the uppercased type.
GetChannelId(notification_type) ==
    LET u == ToUppercase(notification_type)
    IN CASE u = S_ERROR \/ u = S_CRITICAL -> "time_tracker_error"
         [] u = S_WARNING -> "time_tracker_warning"
         [] u = S_SUCCESS -> "time_tracker_success"
         [] u = S_INFO -> "time_tracker_info"
         [] OTHER -> "time_tracker_info"

\* commands.rs:118-124  the match is on the type as given.
TitleSuffix(notification_type) ==
    CASE notification_type = S_ERROR \/ notification_type = S_CRITICAL -> "Error"
      [] notification_type = S_WARNING -> "Warning"
      [] notification_type = S_SUCCESS -> "Success"
      [] notification_type = S_INFO -> "Info"
      [] OTHER -> "Notification"

\* commands.rs:126  format!("Time Tracker - {}", title_suffix)
FullTitle(notification_type) ==
    <<"Time Tracker - ", TitleSuffix(notification_type)>>

\* commands.rs:129-134  payload of "show-notification-with-channel"
NotificationPayloadNormalized(body, notification_type) ==
    [name |-> "show-notification-with-channel",
     title |-> FullTitle(notification_type),
     body |-> body,
     channelId |-> GetChannelId(notification_type),
     notificationType |-> ToUppercase(notification_type)]

\* commands.rs:129-134  the payload of show-notification-with-channel
NotificationPayload(body, notification_type) ==
    [name |-> "show-notification-with-channel",
     title |-> FullTitle(notification_type),
     body |-> body,
     channelId |-> GetChannelId(notification_type),
     notificationType |-> notification_type]

(***************************************************************************)
(* Sound configuration and resolver: sound_manager.rs.                     *)
(***************************************************************************)
FileNames == {"warn.wav", "alt.wav"}

\* Keys a config file may carry in its [sounds] table.
SoundKeys == {S_INFO, S_WARNING, S_ERROR, S_OTHER, S_info}

\* The [sounds] tables explored: empty, one entry, or one file for every
\* upper-case key.
SoundTables ==
    {<<>>}
      \cup {[k \in {key} |-> f] : key \in SoundKeys, f \in FileNames}
      \cup {[k \in SoundKeys \ {S_info} |-> "warn.wav"]}

Fallbacks == {"generated"} \cup FileNames

\* sound_manager.rs:16-33  SoundConfig as parsed (default_volume is read but
\* never applied: sound_manager.rs:269-279).
SoundConfigs ==
    [enabled : BOOLEAN, sounds : SoundTables, fallback : Fallbacks]

\* sound_manager.rs:89  config: None
NoConfig == [present |-> FALSE, enabled |-> TRUE, sounds |-> <<>>,
             fallback |-> "generated"]

SomeConfig(c) == [present |-> TRUE, enabled |-> c.enabled, sounds |-> c.sounds,
                  fallback |-> c.fallback]

\* What the environment holds at <sounds_dir>/config.toml.
ConfigFiles ==
    {[state |-> st, content |-> [enabled |-> TRUE, sounds |-> <<>>,
                                 fallback |-> "generated"]] :
        st \in {"missing", "unreadable", "malformed"}}
      \cup {[state |-> "valid", content |-> c] : c \in SoundConfigs}

LoadConfigMissingFails(file) ==
    CASE file.state = "valid" -> [ok |-> TRUE, config |-> SomeConfig(file.content)]
      [] OTHER -> [ok |-> FALSE, config |-> NoConfig]

\* sound_manager.rs:145-162  load_config: [ok, config]
LoadConfig(file) ==
    CASE file.state = "missing" -> [ok |-> TRUE, config |-> NoConfig]
      [] file.state = "valid" -> [ok |-> TRUE, config |-> SomeConfig(file.content)]
      [] OTHER -> [ok |-> FALSE, config |-> NoConfig]

\* sound_manager.rs:59-70  NotificationSoundType::from, then Display (46-57).
SoundTypeName(notification_type) ==
    LET u == ToUppercase(notification_type)
    IN IF u \in {S_INFO, S_WARNING, S_ERROR, S_SUCCESS, S_CRITICAL} THEN u
       ELSE S_OTHER

IsEnabledAlways(config) == TRUE

\* sound_manager.rs:191-196  is_enabled
IsEnabled(config) == IF config.present THEN config.enabled ELSE TRUE

Unresolved == [kind |-> "unresolved", path |-> ""]

Synthesize == [kind |-> "synth", path |-> ""]

SelectFile(path) == [kind |-> "file", path |-> path]

GetSoundFilePathFallbackFirst(config, sound_type, existing) ==
    IF ~config.present THEN Synthesize
    ELSE IF config.fallback = "generated" THEN Synthesize
    ELSE IF sound_type \in DOMAIN config.sounds
              /\ config.sounds[sound_type] \in existing
         THEN SelectFile(config.sounds[sound_type])
    ELSE IF config.fallback \in existing THEN SelectFile(config.fallback)
    ELSE Synthesize

\* sound_manager.rs:199-226  get_sound_file_path (None is Synthesize)
GetSoundFilePath(config, sound_type, existing) ==
    IF ~config.present THEN Synthesize
    ELSE IF sound_type \in DOMAIN config.sounds
              /\ config.sounds[sound_type] \in existing
         THEN SelectFile(config.sounds[sound_type])
    ELSE IF config.fallback = "generated" THEN Synthesize
    ELSE IF config.fallback \in existing THEN SelectFile(config.fallback)
    ELSE Synthesize

\* sound_manager.rs:258-298  outcomes of play_sound_file with a stream handle
FileOutcomes == {"played", "open_failed", "decode_failed", "play_failed"}

FileOp(path, outcome) == [op |-> "file", path |-> path, outcome |-> outcome]

\* sound_manager.rs:229-255  generate_beep_sound with a stream handle
ToneOutcomes == {"played", "play_failed"}

ToneOp(outcome) == [op |-> "tone", path |-> "", outcome |-> outcome]

PlaybackOpsAlwaysTone(choice, file_outcome, tone_outcome) ==
    IF choice.kind = "file"
    THEN <<FileOp(choice.path, file_outcome), ToneOp(tone_outcome)>>
    ELSE <<ToneOp(tone_outcome)>>

PlaybackOpsNoFallback(choice, file_outcome, tone_outcome) ==
    IF choice.kind = "file"
    THEN <<FileOp(choice.path, file_outcome)>>
    ELSE <<ToneOp(tone_outcome)>>

\* sound_manager.rs:171-187  the playback operations of one
\* play_notification_sound call that found sound enabled.
PlaybackOps(choice, file_outcome, tone_outcome) ==
    IF choice.kind = "file"
    THEN IF file_outcome = "played"
         THEN <<FileOp(choice.path, file_outcome)>>
         ELSE <<FileOp(choice.path, file_outcome), ToneOp(tone_outcome)>>
    ELSE <<ToneOp(tone_outcome)>>

NoManager == [live |-> FALSE, load |-> "none", config |-> NoConfig,
              handle |-> FALSE]

(***************************************************************************)
(* show_notification, step by step (commands.rs:103-183).                  *)
(***************************************************************************)
\* Number of show_notification calls that are explored.
MaxCalls == 2

NoRequest == [title |-> "", body |-> "", notification_type |-> <<>>]

EmitNextPcAlways(emit_ok) == "sound_init"

\* commands.rs:136-137  the ? after map_err returns from the call when the
\* emit failed; otherwise the call goes on to the sound.
EmitNextPc(emit_ok) == IF emit_ok THEN "sound_init" ELSE "idle"

\* sound_manager.rs:244,274  play_raw hands the source to the stream's mixer
\* and returns; the sound is then playing on the call's output stream.
AudioAfterPlay(ops) ==
    IF \E i \in 1 .. Len(ops) : ops[i].outcome = "played"
    THEN "playing" ELSE "silent"

\* commands.rs:179-183, sound_manager.rs:73-78  the SoundManager owns the
\* OutputStream of the call; dropping the manager drops the stream, and a
\* source still queued on a dropped stream is not rendered any further.
AudioAfterDrop(a) == IF a = "playing" THEN "cut" ELSE a

\* commands.rs:104-142  the call starts, resolves channel and title and emits
\* the event; an emit error is returned to the caller by the ? operator.
ShowNotificationEmit ==
    /\ n_pc = "idle"
    /\ n_calls < MaxCalls
    /\ \E title \in Titles, body \in Bodies, notification_type \in TypeStrings,
          emit_ok \in BOOLEAN :
         /\ n_calls' = n_calls + 1
         /\ n_req' = [title |-> title, body |-> body,
                      notification_type |-> notification_type]
         /\ sink' = Append(sink, NotificationPayload(body, notification_type))
         /\ n_emit' = IF emit_ok THEN "ok" ELSE "failed"
         /\ n_pc' = EmitNextPc(emit_ok)
         /\ n_ret' = IF emit_ok THEN "pending" ELSE "Err"
         /\ resolved' = Unresolved
         /\ playback' = <<>>
         /\ n_direct' = "none"
         /\ sound_init' = "none"
         /\ audio' = "silent"
    /\ UNCHANGED <<monitor_vars, query_vars, channel_vars, sm, fs, streams>>

\* sound_manager.rs:121-142  the Result of initialize(): load_config's error
\* is returned by ? before the audio output is tried.
InitializeResult(load_ok, audio_ok) ==
    IF ~load_ok THEN "config_error"
    ELSE IF ~audio_ok THEN "audio_error"
    ELSE "ok"

\* commands.rs:168-174, sound_manager.rs:82-94,121-142  SoundManager::new and
\* initialize: load_config, then OutputStream::try_default.
SoundManagerInit ==
    /\ n_pc = "sound_init"
    /\ \E file \in ConfigFiles, audio_ok \in BOOLEAN :
         LET load == LoadConfig(file)
             init_ok == load.ok /\ audio_ok
         IN /\ sm' = [live |-> TRUE, load |-> file.state, config |-> load.config,
                      handle |-> init_ok]
            /\ streams' = IF init_ok THEN streams + 1 ELSE streams
            /\ sound_init' = InitializeResult(load.ok, audio_ok)
            /\ n_pc' = IF init_ok THEN "play" ELSE "drop"
    /\ UNCHANGED <<monitor_vars, query_vars, channel_vars, sink, n_calls,
                   n_req, n_emit, n_ret, fs, resolved, playback, n_direct,
                   audio>>

\* commands.rs:177, sound_manager.rs:165-188  play_notification_sound
PlayNotificationSound ==
    /\ n_pc = "play"
    /\ \E existing \in SUBSET FileNames, file_outcome \in FileOutcomes,
          tone_outcome \in ToneOutcomes :
         IF ~IsEnabled(sm.config)
         THEN UNCHANGED <<fs, resolved, playback>>
         ELSE LET sound_type == SoundTypeName(n_req.notification_type)
                  choice == GetSoundFilePath(sm.config, sound_type, existing)
              IN /\ fs' = existing
                 /\ resolved' = choice
                 /\ playback' = PlaybackOps(choice, file_outcome, tone_outcome)
    /\ audio' = AudioAfterPlay(playback')
    /\ n_pc' = "drop"
    /\ UNCHANGED <<monitor_vars, query_vars, channel_vars, sink, n_calls,
                   n_req, n_emit, n_ret, sm, n_direct, streams, sound_init>>

\* commands.rs:173,179-183, sound_manager.rs:316-320  play_notification_sound
\* returns Ok(()) and its SoundManager goes out of scope.
DropSoundManager ==
    /\ n_pc = "drop"
    /\ sm' = NoManager
    /\ fs' = {}
    /\ audio' = AudioAfterDrop(audio)
    /\ n_pc' = "direct"
    /\ UNCHANGED <<monitor_vars, query_vars, channel_vars, sink, n_calls,
                   n_req, n_emit, n_ret, resolved, playback, n_direct,
                   streams, sound_init>>

DirectReturnStrict(shown) == IF shown THEN "Ok" ELSE "Err"

\* commands.rs:151-163  the result of show() is only printed; the call
\* returns Ok(()).
DirectReturn(shown) == "Ok"

\* commands.rs:149-163  the direct native notification, then Ok(()).
DirectNotification ==
    /\ n_pc = "direct"
    /\ \E shown \in BOOLEAN :
         /\ n_direct' = IF shown THEN "shown" ELSE "failed"
         /\ n_ret' = DirectReturn(shown)
    /\ n_pc' = "idle"
    /\ UNCHANGED <<monitor_vars, query_vars, channel_vars, sink, n_calls,
                   n_req, n_emit, sm, fs, resolved, playback, streams,
                   sound_init, audio>>

(***************************************************************************)
(* Idle queries: commands.rs get_idle_status, is_user_idle.  Each reads    *)
(* the Idle Source itself and keeps no state.                              *)
(***************************************************************************)
NoIdleStatus == [state |-> "none", is_idle |-> FALSE, idle_time_seconds |-> 0]

NoUserIdle == [state |-> "none", value |-> FALSE, idle_time_seconds |-> 0]

StatusIsIdleStrict(idle_seconds) == idle_seconds > IDLE_THRESHOLD_SECONDS

\* commands.rs:190  let is_idle = idle_seconds >= IDLE_THRESHOLD_SECONDS;
StatusIsIdle(idle_seconds) == idle_seconds >= IDLE_THRESHOLD_SECONDS

\* commands.rs:214  Ok(idle_time.as_seconds() >= IDLE_THRESHOLD_SECONDS)
UserIsIdle(idle_seconds) == idle_seconds >= IDLE_THRESHOLD_SECONDS

\* commands.rs:186-198  get_idle_status, sample Ok
GetIdleStatusOk ==
    /\ \E idle_seconds \in IdleSampleValues :
         idle_status' = [state |-> "Ok",
                         is_idle |-> StatusIsIdle(idle_seconds),
                         idle_time_seconds |-> idle_seconds]
    /\ UNCHANGED <<monitor_vars, sink, notify_vars, channel_vars, user_idle>>

\* commands.rs:199  get_idle_status, sample Err
GetIdleStatusErr ==
    /\ idle_status' = [state |-> "Err", is_idle |-> FALSE,
                       idle_time_seconds |-> 0]
    /\ UNCHANGED <<monitor_vars, sink, notify_vars, channel_vars, user_idle>>

\* commands.rs:212-214  is_user_idle, sample Ok (idle_time_seconds records
\* the sample the answer was computed from)
IsUserIdleOk ==
    /\ \E idle_seconds \in IdleSampleValues :
         user_idle' = [state |-> "Ok",
                       value |-> UserIsIdle(idle_seconds),
                       idle_time_seconds |-> idle_seconds]
    /\ UNCHANGED <<monitor_vars, sink, notify_vars, channel_vars, idle_status>>

\* commands.rs:215  is_user_idle, sample Err
IsUserIdleErr ==
    /\ user_idle' = [state |-> "Err", value |-> FALSE, idle_time_seconds |-> 0]
    /\ UNCHANGED <<monitor_vars, sink, notify_vars, channel_vars, idle_status>>

(***************************************************************************)
(* Notification channels: notification_manager.rs.                         *)
(***************************************************************************)
\* NotificationManager values that exist side by side (each one comes from
\* NotificationManager::new()).
Managers == {"m1", "m2"}

\* Number of initialize_channels calls that are explored.
MaxChannelCalls == 3

NoChannelCall == [manager |-> "none", ret |-> "none", failed |-> {}]

\* notification_manager.rs:53-89  the channels, in the order of the vec.
ChannelConfigs ==
    <<[id |-> "time_tracker_info", importance |-> "Default"],
      [id |-> "time_tracker_warning", importance |-> "High"],
      [id |-> "time_tracker_error", importance |-> "Max"],
      [id |-> "time_tracker_success", importance |-> "Default"],
      [id |-> "time_tracker_critical", importance |-> "Max"]>>

\* notification_manager.rs:113-119
ImportanceValue(importance) ==
    CASE importance = "Min" -> 1
      [] importance = "Low" -> 2
      [] importance = "Default" -> 3
      [] importance = "High" -> 4
      [] importance = "Max" -> 5

\* notification_manager.rs:133-144  the event create_channel emits
ChannelEvent(config) ==
    [name |-> "create-notification-channel",
     id |-> config.id,
     importance |-> ImportanceValue(config.importance),
     sound |-> "notification_sound"]

ChannelsCreatedAfterStrict(failed) == failed = {}

\* notification_manager.rs:92-99  a failed create_channel is printed and the
\* loop goes on; the flag is set after the loop.
ChannelsCreatedAfter(failed) == TRUE

\* notification_manager.rs:44-102  initialize_channels on manager m; failed
\* holds the channels whose app.emit returned an error.
InitializeChannels ==
    /\ ch_calls < MaxChannelCalls
    /\ \E m \in Managers, failed \in SUBSET (1 .. Len(ChannelConfigs)) :
         /\ ch_calls' = ch_calls + 1
         /\ IF channels_created[m]
            THEN /\ ch_last' = [manager |-> m, ret |-> "Ok", failed |-> {}]
                 /\ UNCHANGED <<sink, channels_created>>
            ELSE /\ sink' = Emit(sink, [i \in 1 .. Len(ChannelConfigs) |->
                                           ChannelEvent(ChannelConfigs[i])])
                 /\ channels_created' =
                      [channels_created EXCEPT ![m] = ChannelsCreatedAfter(failed)]
                 /\ ch_last' = [manager |-> m, ret |-> "Ok", failed |-> failed]
    /\ UNCHANGED <<monitor_vars, notify_vars, query_vars>>

\* Number of monitor ticks explored next to the idle queries.
MaxQueryTicks == 3

InitialIdleStateIdle == TRUE

\* lib.rs:62  last_idle_state: false
InitialIdleState == FALSE

\* lib.rs:59-66,70-71  IdleMonitorState::new() at task start; no
\* show_notification call has been made.
Init ==
    /\ last_idle_state = InitialIdleState
    /\ session_start = 0
    /\ now = 0
    /\ ticks = 0
    /\ monitor_running = TRUE
    /\ samples = <<>>
    /\ sink = <<>>
    /\ n_pc = "idle"
    /\ n_calls = 0
    /\ n_req = NoRequest
    /\ n_emit = "none"
    /\ n_ret = "none"
    /\ sm = NoManager
    /\ fs = {}
    /\ resolved = Unresolved
    /\ playback = <<>>
    /\ n_direct = "none"
    /\ streams = 0
    /\ sound_init = "none"
    /\ idle_status = NoIdleStatus
    /\ user_idle = NoUserIdle
    /\ m_pending = <<>>
    /\ audio = "silent"
    /\ channels_created = [m \in Managers |-> FALSE]
    /\ ch_calls = 0
    /\ ch_last = NoChannelCall

MonitorNext == MonitorTickOk \/ MonitorTickErr

MonitorSpec == Init /\ [][MonitorNext]_vars

\* The timer of the runtime keeps firing: interval.tick() always completes.
MonitorFairSpec == MonitorSpec /\ WF_vars(MonitorTick)

\* show_notification calls with one title and one body; the sound stage with
\* every configuration and file system.
NotifyNext ==
    \/ (ShowNotificationEmit /\ n_req'.title = "t" /\ n_req'.body = "b")
    \/ SoundManagerInit
    \/ PlayNotificationSound
    \/ DropSoundManager
    \/ DirectNotification

NotifySpec == Init /\ [][NotifyNext]_vars

\* The monitor task and the idle query commands, in any order.
IdleQueryNext ==
    \/ (ticks < MaxQueryTicks /\ MonitorTickOk)
    \/ (ticks < MaxQueryTicks /\ MonitorTickErr)
    \/ GetIdleStatusOk
    \/ GetIdleStatusErr
    \/ IsUserIdleOk
    \/ IsUserIdleErr

IdleQuerySpec == Init /\ [][IdleQueryNext]_vars

\* initialize_channels calls on the managers, in any order.
ChannelSpec == Init /\ [][InitializeChannels]_vars

\* show_notification calls with every title, body and type; the sound stage
\* finds no configuration file.
PayloadNext ==
    \/ ShowNotificationEmit
    \/ (SoundManagerInit /\ sm'.load = "missing")
    \/ (PlayNotificationSound /\ fs' = {})
    \/ DropSoundManager
    \/ DirectNotification

PayloadSpec == Init /\ [][PayloadNext]_vars

\* Bounds of the joint run of the monitor task and show_notification.
MaxJointTicks == 2

MaxJointCalls == 1

\* Samples below and at the threshold.
JointSamples == {IDLE_THRESHOLD_SECONDS - 1, IDLE_THRESHOLD_SECONDS}

JointTypes == {S_INFO, S_error}

JointConfig ==
    SomeConfig([enabled |-> TRUE, sounds |-> [k \in {S_INFO} |-> "warn.wav"],
                fallback |-> "generated"])

\* The monitor task (lib.rs:156-159 spawns it on the async runtime) next to
\* show_notification calls (commands run on another thread): the steps of
\* the two interleave in any order, also between the two emits of a tick.
JointNext ==
    \/ (ticks < MaxJointTicks /\ MonitorTickBegin
          /\ samples'[Len(samples')] \in JointSamples)
    \/ (ticks < MaxJointTicks /\ m_pending = <<>> /\ MonitorTickErr)
    \/ MonitorTickStatus
    \/ (n_calls < MaxJointCalls /\ ShowNotificationEmit
          /\ n_req'.title = "t" /\ n_req'.body = "b"
          /\ n_req'.notification_type \in JointTypes)
    \/ (SoundManagerInit
          /\ (sm'.load = "missing" \/ sm'.config = JointConfig))
    \/ (PlayNotificationSound /\ fs' \in {{}, {"warn.wav"}})
    \/ DropSoundManager
    \/ DirectNotification

JointSpec == Init /\ [][JointNext]_vars


(***************************************************************************)
(* Observations over the sample history and the sink.                      *)
(***************************************************************************)
EventsNamed(name) == SelectSeq(sink, LAMBDA e : e.name = name)

CountNamed(q, name) == Len(SelectSeq(q, LAMBDA e : e.name = name))

OkTicksOf(h) == {i \in 1 .. Len(h) : h[i] # SampleErr}

OkTicks == OkTicksOf(samples)

\* Classification of the most recent Ok sample of history h before tick i
\* (FALSE if none): the value "of the previous successful tick".
PrevIdleIn(h, i) ==
    LET before == {j \in OkTicksOf(h) : j < i}
    IN IF before = {} THEN FALSE
       ELSE LET j == CHOOSE k \in before : \A l \in before : l <= k
            IN h[j] >= IDLE_THRESHOLD_SECONDS

PrevIdle(i) == PrevIdleIn(samples, i)

\* Ticks on which the tick's is_idle differs from the previous successful one.
EdgeTicks ==
    {i \in OkTicks : (samples[i] >= IDLE_THRESHOLD_SECONDS) # PrevIdle(i)}

\* The tick an event was emitted on, from its timestamp.
TickOfEvent(e) == (e.timestamp \div IDLE_MONITOR_INTERVAL_SECONDS) + 1

TickOk == ticks' = ticks + 1 /\ samples'[Len(samples')] # SampleErr

TickFailed == ticks' = ticks + 1 /\ samples'[Len(samples')] = SampleErr

(***************************************************************************)
(* C1: a transition event (idle-status-changed) is emitted on a tick iff   *)
(* that tick's is_idle differs from the value of the previous successful   *)
(* tick (initially false), one event per such tick and none on any other;  *)
(* samples [2,2,5,5,5,2] give exactly two transition events (became_idle   *)
(* on tick 3, became_active on tick 6) and six status events.              *)
(***************************************************************************)
C1_EdgeTriggered ==
    LET ch == EventsNamed("idle-status-changed")
    IN /\ {TickOfEvent(ch[i]) : i \in 1 .. Len(ch)} = EdgeTicks
       /\ Len(ch) = Cardinality(EdgeTicks)
       /\ samples = <<2, 2, 5, 5, 5, 2>> =>
            /\ Len(ch) = 2
            /\ TickOfEvent(ch[1]) = 3 /\ ch[1].activity_state = "became_idle"
            /\ TickOfEvent(ch[2]) = 6 /\ ch[2].activity_state = "became_active"
            /\ Len(EventsNamed("idle-status-update")) = 6

C1_Witness ==
    /\ samples = <<2, 2, 5, 5, 5, 2>>
    /\ Len(EventsNamed("idle-status-changed")) = 2

(***************************************************************************)
(* C3: a tick whose sample is an error emits no event and leaves           *)
(* last_idle_state and session_start as they were.                         *)
(***************************************************************************)
C3_FailedTickSkipped ==
    [][TickFailed =>
         /\ sink' = sink
         /\ last_idle_state' = last_idle_state
         /\ session_start' = session_start]_vars

\* A failed tick taken while the monitor is idle, after a session reset.
C3_Witness ==
    /\ Len(samples) >= 4
    /\ samples[Len(samples)] = SampleErr
    /\ last_idle_state
    /\ session_start > 0

(***************************************************************************)
(* C4: the monitor loop never terminates; with the timer firing fairly     *)
(* every tick is followed by another one (ticks are counted one by one and *)
(* the count always reaches the explored horizon), also after failed       *)
(* samples, and every Ok sample, the first one after failures included, is *)
(* classified against the threshold and reported by a status event.        *)
(***************************************************************************)
C4_MonitorNeverStops ==
    /\ [](monitor_running)
    /\ [][ticks' = ticks \/ ticks' = ticks + 1]_vars
    /\ (ticks < MaxTicks) ~> (ticks = MaxTicks)
    /\ [][TickOk =>
            LET s == samples'[Len(samples')]
                e == sink'[Len(sink')]
            IN /\ Len(sink') > Len(sink)
               /\ e.name = "idle-status-update"
               /\ e.idle_time_seconds = s
               /\ e.is_idle = (s >= IDLE_THRESHOLD_SECONDS)
               /\ last_idle_state' = (s >= IDLE_THRESHOLD_SECONDS)]_vars

\* Two failed samples in a row, then an Ok sample that was reported.
C4_Witness ==
    /\ Len(samples) >= 3
    /\ samples[Len(samples) - 2] = SampleErr
    /\ samples[Len(samples) - 1] = SampleErr
    /\ samples[Len(samples)] # SampleErr
    /\ Len(sink) > 0
    /\ sink[Len(sink)].idle_time_seconds = samples[Len(samples)]

(***************************************************************************)
(* C8: after at least one successful sample, the stored idle flag equals   *)
(* (idle_seconds of the most recent successful sample >= threshold).       *)
(***************************************************************************)
C8_IdleFlagMatchesLastSample ==
    OkTicks # {} => last_idle_state = PrevIdle(Len(samples) + 1)

\* The last Ok sample sits on the threshold and failed ticks followed it.
C8_Witness ==
    /\ Len(samples) >= 3
    /\ samples[Len(samples)] = SampleErr
    /\ samples[Len(samples) - 1] = IDLE_THRESHOLD_SECONDS
    /\ samples[Len(samples) - 2] < IDLE_THRESHOLD_SECONDS
    /\ last_idle_state

(***************************************************************************)
(* C9: session_start is set to the current time exactly on the ticks that  *)
(* change the state from idle to active; every other tick (transition to   *)
(* idle, no transition, failed sample) leaves it unchanged.                *)
(***************************************************************************)
C9_SessionStartReset ==
    [][ticks' = ticks + 1 =>
         LET i == Len(samples')
             toActive == /\ samples'[i] # SampleErr
                         /\ samples'[i] < IDLE_THRESHOLD_SECONDS
                         /\ PrevIdleIn(samples, i)
         IN IF toActive THEN session_start' = now' /\ session_start' # session_start
            ELSE session_start' = session_start]_vars

\* The state right after a tick that went from idle to active.
C9_Witness ==
    /\ Len(samples) >= 2
    /\ samples[Len(samples)] # SampleErr
    /\ samples[Len(samples)] < IDLE_THRESHOLD_SECONDS
    /\ samples[Len(samples) - 1] >= IDLE_THRESHOLD_SECONDS
    /\ session_start = now
    /\ now > 0

(***************************************************************************)
(* C10 as stated: every tick emits exactly one idle-status-update event.   *)
(***************************************************************************)
C10_StatusOnEveryTick ==
    Len(EventsNamed("idle-status-update")) = ticks

(***************************************************************************)
(* C10 as amended: every tick whose sample succeeded emits exactly one     *)
(* idle-status-update event, transition or not; a tick whose sample failed *)
(* emits none.                                                             *)
(***************************************************************************)
C10_StatusOnEveryOkTick ==
    LET st == EventsNamed("idle-status-update")
    IN /\ Len(st) = Cardinality(OkTicks)
       /\ {TickOfEvent(st[i]) : i \in 1 .. Len(st)} = OkTicks

\* A transition tick and a non-transition tick each produced their status
\* event, and a failed tick produced none.
C10_Witness ==
    /\ Len(samples) >= 3
    /\ SampleErr \in {samples[i] : i \in 1 .. Len(samples)}
    /\ Len(EventsNamed("idle-status-changed")) >= 1
    /\ Len(EventsNamed("idle-status-update")) >= 2
    /\ Len(EventsNamed("idle-status-update")) < ticks

(***************************************************************************)
(* C2 as stated: a show_notification call whose event emission was         *)
(* rejected by the sink still returns success.                             *)
(***************************************************************************)
C2_EmitFailureAbsorbed ==
    (n_pc = "idle" /\ n_emit = "failed") => n_ret = "Ok"

(***************************************************************************)
(* C5: whenever the resolver ran, its result follows the fixed order:      *)
(* (1) the file mapped to the type's upper-case name (OTHER for unknown    *)
(* types) if it is mapped and exists, whatever the fallback; (2) else      *)
(* synthesis if the fallback is "generated"; (3) else the fallback file if *)
(* it exists; (4) else synthesis.                                          *)
(***************************************************************************)
C5_ResolverOrder ==
    (n_pc = "drop" /\ resolved.kind # "unresolved") =>
        LET cfg == sm.config
            upper == ToUppercase(n_req.notification_type)
            bucket == IF upper \in {S_INFO, S_WARNING, S_ERROR, S_SUCCESS,
                                    S_CRITICAL}
                      THEN upper ELSE S_OTHER
            mapped == cfg.present /\ bucket \in DOMAIN cfg.sounds
        IN IF mapped /\ cfg.sounds[bucket] \in fs
           THEN resolved = [kind |-> "file", path |-> cfg.sounds[bucket]]
           ELSE IF cfg.present /\ cfg.fallback = "generated"
           THEN resolved.kind = "synth"
           ELSE IF cfg.present /\ cfg.fallback \in fs
           THEN resolved = [kind |-> "file", path |-> cfg.fallback]
           ELSE resolved.kind = "synth"

\* INFO is mapped to a file that does not exist, the fallback is "generated",
\* and the resolver chose synthesis.
C5_Witness ==
    /\ n_pc = "drop"
    /\ n_req.notification_type = S_INFO
    /\ sm.config.present
    /\ S_INFO \in DOMAIN sm.config.sounds
    /\ sm.config.sounds[S_INFO] \notin fs
    /\ sm.config.fallback = "generated"
    /\ resolved.kind = "synth"
    /\ n_ret # "Err"

(***************************************************************************)
(* C6 as stated: every type string outside the exact set {ERROR, CRITICAL, *)
(* WARNING, SUCCESS, INFO} resolves to the channel time_tracker_info and   *)
(* to the title suffix "Notification".                                     *)
(***************************************************************************)
C6_UnknownTypesDefault ==
    (n_calls > 0 /\ n_req.notification_type
                      \notin {S_ERROR, S_CRITICAL, S_WARNING, S_SUCCESS, S_INFO}) =>
        /\ sink[Len(sink)].channelId = "time_tracker_info"
        /\ sink[Len(sink)].title = <<"Time Tracker - ", "Notification">>

(***************************************************************************)
(* C7: while the SoundManager of a call holds a configuration with         *)
(* enabled = false, no playback operation (file or tone) has been invoked  *)
(* for that call.                                                          *)
(***************************************************************************)
C7_DisabledPlaysNothing ==
    (sm.live /\ sm.config.present /\ ~sm.config.enabled) => playback = <<>>

\* play_notification_sound has run on an initialised manager whose
\* configuration disables sound.
C7_Witness ==
    /\ n_pc = "drop"
    /\ sm.handle
    /\ sm.config.present
    /\ ~sm.config.enabled
    /\ playback = <<>>

(***************************************************************************)
(* C11 as stated: when the sound stage of a call is over and sound is not  *)
(* disabled, no playback operation at all (file or tone) only if the       *)
(* audio-output initialization failed.                                     *)
(***************************************************************************)
C11_SilenceOnlyOnAudioFailure ==
    (n_pc = "drop" /\ ~(sm.config.present /\ ~sm.config.enabled)
       /\ playback = <<>>)
        => sound_init = "audio_error"

(***************************************************************************)
(* C12 as stated: with a config file that exists but cannot be parsed, the *)
(* sound subsystem runs on its defaults (enabled, synthesized tone) and,   *)
(* unless the audio output itself fails, plays the tone.                   *)
(***************************************************************************)
C12_MalformedConfigStillPlays ==
    (n_pc = "drop" /\ sm.load = "malformed" /\ sound_init # "audio_error") =>
        /\ Len(playback) = 1
        /\ playback[1].op = "tone"

(***************************************************************************)
(* C13: with the config file missing, loading does not fail (initialize    *)
(* goes on to the audio output), sound counts as enabled, and every        *)
(* notification type resolves to the synthesized tone, which is the one    *)
(* playback operation invoked.                                             *)
(***************************************************************************)
C13_MissingConfigSynthesizes ==
    (n_pc = "drop" /\ sm.load = "missing") =>
        /\ sound_init # "config_error"
        /\ sound_init = "ok" =>
             /\ resolved.kind = "synth"
             /\ Len(playback) = 1
             /\ playback[1].op = "tone"

\* A call of a type other than INFO ran the sound stage without a config
\* file and invoked the tone.
C13_Witness ==
    /\ n_pc = "drop"
    /\ sm.load = "missing"
    /\ sound_init = "ok"
    /\ n_req.notification_type = S_WARNING
    /\ resolved.kind = "synth"
    /\ Len(playback) = 1

(***************************************************************************)
(* C14 as stated: every finished show_notification call has attempted the  *)
(* direct native notification, also when the channelled emission failed.   *)
(***************************************************************************)
C14_DirectAlwaysAttempted ==
    (n_pc = "idle" /\ n_calls > 0) => n_direct # "none"

(***************************************************************************)
(* C15: a finished call whose event was emitted returned Ok, whatever the  *)
(* results of sound initialization, playback and the direct notification;  *)
(* and after a failed audio-output initialization no playback operation    *)
(* is invoked in that call.                                                *)
(***************************************************************************)
C15_OkDespiteSoundAndDirectFailures ==
    /\ (n_pc = "idle" /\ n_emit = "ok") => n_ret = "Ok"
    /\ (n_calls > 0 /\ sound_init = "audio_error") => playback = <<>>

\* A call returned after the audio output failed to initialise and the
\* direct notification failed too.
C15_Witness ==
    /\ n_pc = "idle"
    /\ n_emit = "ok"
    /\ sound_init = "audio_error"
    /\ n_direct = "failed"
    /\ n_ret = "Ok"

(***************************************************************************)
(* C16: when the file mapped to the call's type exists, the first playback *)
(* operation is the file playback with that path; when it plays, it is the *)
(* only operation: one file playback, no synthesized tone.                 *)
(***************************************************************************)
C16_MappedFilePlaysAlone ==
    LET cfg == sm.config
        upper == ToUppercase(n_req.notification_type)
        bucket == IF upper \in {S_INFO, S_WARNING, S_ERROR, S_SUCCESS,
                                S_CRITICAL}
                  THEN upper ELSE S_OTHER
    IN (/\ n_pc = "drop" /\ sound_init = "ok"
        /\ cfg.present /\ cfg.enabled
        /\ bucket \in DOMAIN cfg.sounds
        /\ cfg.sounds[bucket] \in fs) =>
           /\ Len(playback) >= 1
           /\ playback[1].op = "file"
           /\ playback[1].path = cfg.sounds[bucket]
           /\ playback[1].outcome = "played" => Len(playback) = 1
           /\ \A k \in 2 .. Len(playback) : playback[k].op # "file"

\* show_notification("t", "b", "WARNING") with WARNING -> warn.wav present.
C16_Witness ==
    /\ n_pc = "idle"
    /\ n_ret = "Ok"
    /\ n_req.notification_type = S_WARNING
    /\ resolved = [kind |-> "file", path |-> "warn.wav"]
    /\ playback = <<[op |-> "file", path |-> "warn.wav", outcome |-> "played"]>>

(***************************************************************************)
(* C17: when a file was selected and opening or decoding it failed, the    *)
(* call went on (no error is returned) and the playback operations of the  *)
(* call are that file attempt followed by exactly one synthesized tone.    *)
(***************************************************************************)
C17_DecodeFailureFallsBackToTone ==
    (/\ Len(playback) >= 1
     /\ playback[1].op = "file"
     /\ playback[1].outcome \in {"open_failed", "decode_failed"}) =>
        /\ Len(playback) = 2
        /\ playback[2].op = "tone"
        /\ n_ret # "Err"
        /\ n_pc \in {"drop", "direct", "idle"}

\* The call finished after a decode failure and one tone.
C17_Witness ==
    /\ n_pc = "idle"
    /\ n_ret = "Ok"
    /\ Len(playback) = 2
    /\ playback[1].op = "file"
    /\ playback[1].outcome = "decode_failed"
    /\ playback[2] = [op |-> "tone", path |-> "", outcome |-> "played"]

(***************************************************************************)
(* C18: every payload emitted for ERROR or CRITICAL carries the channel    *)
(* time_tracker_error and the title suffix "Error", and two payloads for   *)
(* the same type carry the same channel and title.                         *)
(***************************************************************************)
C18_ErrorAndCriticalAgree ==
    \A i, j \in 1 .. Len(sink) :
        /\ sink[i].notificationType \in {S_ERROR, S_CRITICAL} =>
             /\ sink[i].channelId = "time_tracker_error"
             /\ sink[i].title = <<"Time Tracker - ", "Error">>
        /\ ({sink[i].notificationType, sink[j].notificationType}
               \subseteq {S_ERROR, S_CRITICAL}
            \/ sink[i].notificationType = sink[j].notificationType) =>
             /\ sink[i].channelId = sink[j].channelId
             /\ sink[i].title = sink[j].title

\* One call with ERROR and one with CRITICAL were routed.
C18_Witness ==
    /\ Len(sink) = 2
    /\ sink[1].notificationType = S_ERROR
    /\ sink[2].notificationType = S_CRITICAL
    /\ sink[1].channelId = sink[2].channelId

(***************************************************************************)
(* C19: in the monitor tick, in get_idle_status and in is_user_idle,       *)
(* is_idle is true exactly when idle_seconds >= IDLE_THRESHOLD_SECONDS     *)
(* (the threshold itself counts as idle), whatever the monitor state and   *)
(* the earlier samples are.                                                *)
(***************************************************************************)
C19_ClassificationIsThreshold ==
    /\ \A i \in 1 .. Len(sink) :
         sink[i].is_idle = (sink[i].idle_time_seconds >= IDLE_THRESHOLD_SECONDS)
    /\ idle_status.state = "Ok" =>
         idle_status.is_idle
           = (idle_status.idle_time_seconds >= IDLE_THRESHOLD_SECONDS)
    /\ user_idle.state = "Ok" =>
         user_idle.value = (user_idle.idle_time_seconds >= IDLE_THRESHOLD_SECONDS)

\* All three sites classified a sample on the threshold as idle, the
\* monitor doing so while it was already idle.
C19_Witness ==
    /\ Len(samples) >= 2
    /\ samples[Len(samples) - 1] > IDLE_THRESHOLD_SECONDS
    /\ samples[Len(samples)] = IDLE_THRESHOLD_SECONDS
    /\ sink[Len(sink)].is_idle
    /\ idle_status.state = "Ok"
    /\ idle_status.idle_time_seconds = IDLE_THRESHOLD_SECONDS
    /\ idle_status.is_idle
    /\ user_idle.state = "Ok"
    /\ user_idle.idle_time_seconds = IDLE_THRESHOLD_SECONDS
    /\ user_idle.value

(***************************************************************************)
(* C20: the monitor starts active: while every Ok sample is below the      *)
(* threshold no transition event is emitted (samples 1,1,4 give none,      *)
(* none, then one became_idle), the first transition event is became_idle  *)
(* and transition events alternate became_idle, became_active, ...         *)
(***************************************************************************)
C20_StartsActiveAndAlternates ==
    LET ch == EventsNamed("idle-status-changed")
    IN /\ (\A i \in OkTicks : samples[i] < IDLE_THRESHOLD_SECONDS) => Len(ch) = 0
       /\ \A k \in 1 .. Len(ch) :
            ch[k].activity_state
              = IF k % 2 = 1 THEN "became_idle" ELSE "became_active"
       /\ samples = <<1, 1, 4>> =>
            /\ Len(ch) = 1
            /\ TickOfEvent(ch[1]) = 3
            /\ ch[1].activity_state = "became_idle"

C20_Witness ==
    /\ samples = <<1, 1, 4>>
    /\ Len(EventsNamed("idle-status-changed")) = 1

BecameActive(e) ==
    e.name = "idle-status-changed" /\ e.activity_state = "became_active"

(***************************************************************************)
(* C21: the event emitted next after a became_active transition event      *)
(* reports a session duration smaller than the poll interval; after any    *)
(* other event the next event's session duration is not smaller than that  *)
(* event's, so between two transitions to active the reported durations    *)
(* never decrease.                                                         *)
(***************************************************************************)
C21_SessionDurationProfile ==
    /\ Len(sink) > 0 => ~BecameActive(sink[Len(sink)])
    /\ \A i \in 1 .. Len(sink) - 1 :
         IF BecameActive(sink[i])
         THEN sink[i + 1].session_duration_seconds
                < IDLE_MONITOR_INTERVAL_SECONDS
         ELSE sink[i + 1].session_duration_seconds
                >= sink[i].session_duration_seconds

C21_Witness ==
    \E i \in 1 .. Len(sink) - 2 :
        /\ BecameActive(sink[i])
        /\ sink[i].session_duration_seconds
             >= 2 * IDLE_MONITOR_INTERVAL_SECONDS
        /\ sink[i + 1].session_duration_seconds = 0
        /\ sink[i + 2].session_duration_seconds = IDLE_MONITOR_INTERVAL_SECONDS

(***************************************************************************)
(* C26: on a tick that transitions to active the became_active event is    *)
(* followed by the status event of the same tick; the became_active event  *)
(* reports the duration since the previous session start (it continues     *)
(* the duration of the event before it by the time that passed since), the *)
(* status event reports the duration since the reset (zero), and the two   *)
(* differ, the transition event's being the larger.                        *)
(***************************************************************************)
C26_TransitionDurationBeforeReset ==
    \A i \in 1 .. Len(sink) :
        BecameActive(sink[i]) =>
          /\ i > 1 /\ i < Len(sink)
          /\ sink[i + 1].name = "idle-status-update"
          /\ sink[i + 1].timestamp = sink[i].timestamp
          /\ sink[i].session_duration_seconds
                - sink[i - 1].session_duration_seconds
               = sink[i].timestamp - sink[i - 1].timestamp
          /\ sink[i + 1].session_duration_seconds = 0
          /\ sink[i].session_duration_seconds
               >= sink[i + 1].session_duration_seconds
          /\ sink[i].session_duration_seconds
               # sink[i + 1].session_duration_seconds

C26_Witness ==
    /\ samples = <<0, 4, SampleErr, 4, 1>>
    /\ Len(sink) = 6
    /\ BecameActive(sink[5])
    /\ sink[5].session_duration_seconds = 4 * IDLE_MONITOR_INTERVAL_SECONDS
    /\ sink[6].session_duration_seconds = 0

(***************************************************************************)
(* C23: one audio output stream, acquired once, backs every playback of    *)
(* the process: the number of stream acquisitions never exceeds one,       *)
(* however many notification requests are made.                            *)
(***************************************************************************)
C23_SingleStreamAcquisition == streams <= 1

PlaybackStarted == \E i \in 1 .. Len(playback) : playback[i].outcome = "played"

(***************************************************************************)
(* C24: playback is fire-and-forget: when the play call has returned a     *)
(* started playback is playing, and after the SoundManager of the call has *)
(* been dropped a started playback still plays on (it is never cut off).   *)
(***************************************************************************)
C24_PlaybackOutlivesManager ==
    /\ (n_pc = "drop" /\ PlaybackStarted) => audio = "playing"
    /\ (n_pc \in {"direct", "idle"} /\ PlaybackStarted) => audio = "playing"

(***************************************************************************)
(* C27: within one show_notification call the event is emitted first, then *)
(* the sound is attempted, then the direct notification: the sound stage   *)
(* and the direct notification are reached only after the emission has     *)
(* succeeded (the event is the last one in the sink while the call runs),  *)
(* nothing of the sound stage or the direct notification has happened      *)
(* before its turn, and the direct notification is attempted only when the *)
(* sound stage is over.                                                    *)
(***************************************************************************)
C27_EmitThenSoundThenDirect ==
    /\ (n_pc # "idle" \/ sound_init # "none" \/ playback # <<>>
          \/ n_direct # "none" \/ sm.live) =>
         /\ n_emit = "ok"
         /\ Len(sink) > 0
         /\ sink[Len(sink)].name = "show-notification-with-channel"
    /\ n_pc = "sound_init" =>
         sound_init = "none" /\ playback = <<>> /\ n_direct = "none"
    /\ n_pc \in {"play", "drop"} => sound_init # "none" /\ n_direct = "none"
    /\ n_pc = "play" => playback = <<>>
    /\ n_pc = "direct" =>
         sound_init # "none" /\ ~sm.live /\ n_direct = "none"
    /\ n_direct # "none" => n_pc = "idle" /\ sound_init # "none" /\ ~sm.live

C27_Witness ==
    /\ n_pc = "idle"
    /\ n_emit = "ok"
    /\ PlaybackStarted
    /\ n_direct = "shown"
    /\ n_ret = "Ok"

ChannelIdsInOrder ==
    <<"time_tracker_info", "time_tracker_warning", "time_tracker_error",
      "time_tracker_success", "time_tracker_critical">>

(***************************************************************************)
(* C28: initialize_channels always returns Ok and leaves channels_created  *)
(* of its manager true, whichever emissions failed; a call on a manager    *)
(* whose flag is false hands one create-notification-channel event for     *)
(* each of the five channels to the sink, in the order of the list; a call *)
(* on a manager whose flag is true emits nothing and changes no flag; no   *)
(* call touches another manager's flag.                                    *)
(***************************************************************************)
C28_InitializeChannelsIdempotent ==
    [][ch_calls' = ch_calls + 1 =>
         LET m == ch_last'.manager
         IN /\ ch_last'.ret = "Ok"
            /\ channels_created'[m]
            /\ \A o \in Managers \ {m} :
                 channels_created'[o] = channels_created[o]
            /\ IF channels_created[m]
               THEN sink' = sink /\ channels_created' = channels_created
               ELSE /\ Len(sink') = Len(sink) + 5
                    /\ SubSeq(sink', 1, Len(sink)) = sink
                    /\ \A i \in 1 .. 5 :
                         /\ sink'[Len(sink) + i].name
                              = "create-notification-channel"
                         /\ sink'[Len(sink) + i].id = ChannelIdsInOrder[i]]_vars

C28_Witness ==
    /\ ch_calls = 3
    /\ ch_last.manager = "m1"
    /\ ch_last.failed = {}
    /\ channels_created["m1"]
    /\ ~channels_created["m2"]
    /\ Len(sink) = 5

(***************************************************************************)
(* C29: the payload show_notification emits has the title "Time Tracker -  *)
(* " followed by the title suffix of the type, which is not the title the  *)
(* caller passed; its body is the request's body and its notificationType  *)
(* the request's type string as given (a lower-case "error" stays          *)
(* lower-case); two payloads of equal body and type are equal whatever     *)
(* titles were passed.                                                     *)
(***************************************************************************)
C29_PayloadFromBodyAndType ==
    /\ n_calls > 0 =>
         LET e == sink[Len(sink)]
         IN /\ e.name = "show-notification-with-channel"
            /\ e.title = <<"Time Tracker - ", TitleSuffix(n_req.notification_type)>>
            /\ e.title[2] \in {"Error", "Warning", "Success", "Info",
                                "Notification"}
            /\ n_req.title \notin {e.title[1], e.title[2]}
            /\ e.body = n_req.body
            /\ e.notificationType = n_req.notification_type
    /\ \A i, j \in 1 .. Len(sink) :
         (sink[i].body = sink[j].body
            /\ sink[i].notificationType = sink[j].notificationType)
           => sink[i] = sink[j]

C29_Witness ==
    /\ n_calls = 2
    /\ n_req = [title |-> "Urgent", body |-> "c", notification_type |-> S_error]
    /\ sink[2].title = <<"Time Tracker - ", "Notification">>
    /\ sink[2].body = "c"
    /\ sink[2].notificationType = S_error
    /\ sink[1] = sink[2]

IdleEvent(e) == e.name \in {"idle-status-changed", "idle-status-update"}

IdleEventsIn(q) == SelectSeq(q, IdleEvent)

NotificationEventsIn(q) ==
    SelectSeq(q, LAMBDA e : e.name = "show-notification-with-channel")

\* The monitor run alone on the sample history h: its state and its events.
RECURSIVE RunMonitor(_)
RunMonitor(h) ==
    IF h = <<>>
    THEN [last |-> InitialIdleState, start |-> 0, now |-> 0, events |-> <<>>]
    ELSE LET p == RunMonitor(SubSeq(h, 1, Len(h) - 1))
             x == h[Len(h)]
             t == TickTime(Len(h) - 1, p.now)
             is_idle == IsIdle(x)
             changed == StateChanged(is_idle, p.last)
             start1 == SessionStartAfter(is_idle, changed, p.start, t)
         IN IF x = SampleErr THEN [p EXCEPT !.now = t]
            ELSE [last |-> LastIdleAfter(is_idle, changed, p.last),
                  start |-> start1,
                  now |-> t,
                  events |-> p.events
                    \o ChangedEvents(is_idle, x, changed, p.start, t)
                    \o StatusEvents(is_idle, x, changed, start1, t)]

(***************************************************************************)
(* C22: under every interleaving of monitor steps and show_notification    *)
(* steps, the monitor's state and its idle events (those in the sink and   *)
(* the one about to be emitted) are what the monitor produces from the     *)
(* same samples when it runs alone; the payload, the result and the sound  *)
(* choice of a call are what the call's own inputs give; a step of one     *)
(* side changes no variable of the other and adds only its own events to   *)
(* the sink.                                                               *)
(***************************************************************************)
C22_MonitorAndNotifyIndependent ==
    /\ [](LET r == RunMonitor(samples)
            ne == NotificationEventsIn(sink)
        IN /\ last_idle_state = r.last
           /\ session_start = r.start
           /\ now = r.now
           /\ IdleEventsIn(sink) \o m_pending = r.events
           /\ Len(ne) = n_calls
           /\ n_calls > 0 =>
                ne[Len(ne)] = NotificationPayload(n_req.body,
                                                  n_req.notification_type)
           /\ (n_ret = "Err") = (n_emit = "failed")
           /\ (n_ret = "Ok") = (n_emit = "ok" /\ n_direct # "none")
           /\ (n_pc = "drop" /\ sound_init = "ok" /\ IsEnabled(sm.config)) =>
                resolved = GetSoundFilePath(sm.config,
                             SoundTypeName(n_req.notification_type), fs))
    /\ [][/\ (monitor_vars' # monitor_vars) =>
               (/\ notify_vars' = notify_vars
                /\ NotificationEventsIn(sink') = NotificationEventsIn(sink))
          /\ (notify_vars' # notify_vars) =>
               (/\ monitor_vars' = monitor_vars
                /\ IdleEventsIn(sink') = IdleEventsIn(sink))]_vars

C22_Witness ==
    /\ ticks = 2
    /\ m_pending # <<>>
    /\ n_pc = "drop"
    /\ resolved = SelectFile("warn.wav")
    /\ last_idle_state
    /\ Len(sink) = 3
    /\ sink[2].name = "show-notification-with-channel"

(***************************************************************************)
(* C25: the idle events are in the sink in the order of their emission:    *)
(* events of an earlier tick come before events of a later tick, and       *)
(* within a tick the idle-status-changed event comes before the            *)
(* idle-status-update event; the event of the latest show_notification     *)
(* call is the last notification event of the sink.  A notification event  *)
(* may stand anywhere among the idle events, also between the two events   *)
(* of one tick.                                                            *)
(***************************************************************************)
C25_FifoPerProducer ==
    LET ev == IdleEventsIn(sink) \o m_pending
        ne == NotificationEventsIn(sink)
    IN /\ \A i, j \in 1 .. Len(ev) :
            (i < j) =>
              /\ TickOfEvent(ev[i]) <= TickOfEvent(ev[j])
              /\ (TickOfEvent(ev[i]) = TickOfEvent(ev[j])) =>
                   (/\ ev[i].name = "idle-status-changed"
                    /\ ev[j].name = "idle-status-update")
       /\ n_calls > 0 =>
            /\ Len(ne) = n_calls
            /\ ne[Len(ne)].notificationType = n_req.notification_type

C25_Witness ==
    \E i \in 1 .. Len(sink) - 2 :
        /\ sink[i].name = "idle-status-changed"
        /\ sink[i + 1].name = "show-notification-with-channel"
        /\ sink[i + 2].name = "idle-status-update"
        /\ sink[i + 2].timestamp = sink[i].timestamp

=============================================================================
